---- MODULE Spec2Model ----
(***************************************************************************)
(* Model of the multi-room chat service of src/src/main.rs: the three      *)
(* mutex-guarded maps of SharedState, the ClientSession actor (started,    *)
(* stopped, the ChatMessage handler and the stream handler) and the REST   *)
(* handlers.  A handler that takes one lock and never blocks inside it is  *)
(* one action guarded by the lock being free; the stream handler, the only *)
(* code that takes two locks, is split at its two lock acquisitions and at *)
(* the release of its guards.                                              *)
(***************************************************************************)
EXTENDS Naturals, Sequences, FiniteSets, TLC

\* ---- bounds of the model ------------------------------------------------
NumSessions == 2      \* session handles (connections) that may ever exist
NumRoomIds  == 2      \* room ids (Uuid values) that exist
MaxFrames   == 2      \* inbound websocket frames handled, all sessions
MaxChatRequests == 1  \* REST requests served beside the chat traffic (Spec)
MaxRequests == 3      \* REST requests served in RestSpec
RestSessions == 1     \* session handles in RestSpec
RestFrames  == 1      \* inbound websocket frames handled in RestSpec

Handles  == 1..NumSessions
RoomIds  == 1..NumRoomIds
None     == 0         \* no handle: a free mutex / no http request yet

\* ---- input alphabets ----------------------------------------------------
RoomNames    == {"general"}
Creators     == {"alice"}
Usernames    == {"bob"}
Passwords    == {"pw"}
Contents     == {"hi", "yo"}
NonTextKinds == {"Binary", "Close", "ProtocolError"}
\* a query parameter is absent or present with a text; the text of roomId
\* is the canonical text of a room id or a text that is no uuid
Absent       == <<"absent">>
Present(t)   == <<"present", t>>
UuidText(id) == <<"uuid", id>>
NotAUuid     == <<"text", 0>>
RoomIdParams == {Absent, Present(NotAUuid)} \cup {Present(UuidText(id)) : id \in RoomIds}
UserParams   == {Absent, Present("bob")}

VARIABLES
    user_accounts,    \* SharedState.user_accounts: username -> password
    chat_rooms,       \* SharedState.chat_rooms: room id -> ChatRoom
    active_sessions,  \* SharedState.active_sessions: room id -> Seq(handle)
    sessions_lock,    \* holder of the active_sessions mutex, or None
    rooms_lock,       \* holder of the chat_rooms mutex, or None
    actor,            \* handle -> "Unused" | "Connecting" | "Attached" | "Closed"
    session,          \* handle -> the ClientSession value [room_id, username]
    conn_open,        \* handle -> the websocket connection is open
    mailbox,          \* handle -> Seq(ChatMessage) queued by do_send
    outbox,           \* handle -> Seq(text frame) written by ctx.text
    pc,               \* handle -> position of the actor inside the stream handler
    frame,            \* handle -> the frame being handled (content, message)
    frames,           \* number of inbound frames handled so far
    requests,         \* the REST requests and rejected connects served so far
    response          \* the last http response [op, args, status, body]

vars == <<user_accounts, chat_rooms, active_sessions, sessions_lock, rooms_lock,
          actor, session, conn_open, mailbox, outbox, pc, frame, frames,
          requests, response>>

sharedVars  == <<user_accounts, chat_rooms, active_sessions>>
lockVars    == <<sessions_lock, rooms_lock>>
sessionVars == <<actor, session, conn_open, mailbox, outbox, pc, frame, frames>>
httpVars    == <<requests, response>>

\* ---- data ---------------------------------------------------------------
ChatMessage(room_id, sender, content) ==
    [room_id |-> room_id, sender |-> sender, content |-> content]

ChatRoom(id, name, created_by) ==
    [id |-> id, name |-> name, created_by |-> created_by,
     participants |-> {}, message_log |-> <<>>]

NoSession == [room_id |-> 0, username |-> ""]
NoFrame   == [content |-> "", msg |-> ChatMessage(0, "", "")]
NoResponse == [op |-> "none", args |-> <<>>, status |-> 0, body |-> <<>>]

HttpResponse(op, args, status, body) ==
    [op |-> op, args |-> args, status |-> status, body |-> body]

\* the entry of the request log for a response
Served(resp) == [op |-> resp.op, args |-> resp.args, status |-> resp.status]

\* HashMap::insert
MapInsert(m, k, v) == [x \in (DOMAIN m) \cup {k} |-> IF x = k THEN v ELSE m[x]]

\* mutant of Retain: the collection is cleared
RetainNone(list, h) == <<>>

\* Vec::retain(|addr| addr != h)
RECURSIVE Retain(_, _)
Retain(list, h) ==
    IF list = <<>> THEN <<>>
    ELSE IF Head(list) = h THEN Retain(Tail(list), h)
         ELSE <<Head(list)>> \o Retain(Tail(list), h)

Range(seq) == {seq[i] : i \in 1..Len(seq)}

Init ==
    /\ user_accounts = <<>>
    /\ chat_rooms = <<>>
    /\ active_sessions = <<>>
    /\ sessions_lock = None
    /\ rooms_lock = None
    /\ actor = [h \in Handles |-> "Unused"]
    /\ session = [h \in Handles |-> NoSession]
    /\ conn_open = [h \in Handles |-> FALSE]
    /\ mailbox = [h \in Handles |-> <<>>]
    /\ outbox = [h \in Handles |-> <<>>]
    /\ pc = [h \in Handles |-> "idle"]
    /\ frame = [h \in Handles |-> NoFrame]
    /\ frames = 0
    /\ requests = <<>>
    /\ response = NoResponse

\* ---- ws_handler ---------------------------------------------------------
\* Uuid::parse_str(id).ok()
ParseUuid(text) ==
    IF \E id \in RoomIds : text = UuidText(id)
    THEN [ok |-> TRUE, id |-> CHOOSE id \in RoomIds : text = UuidText(id)]
    ELSE [ok |-> FALSE, id |-> 0]

\* mutant of ParseRoomId: a text that is no uuid falls back to a default id
ParseRoomIdOrDefault(param) ==
    IF param = Absent THEN [ok |-> FALSE, id |-> 0]
    ELSE IF ParseUuid(param[2]).ok THEN ParseUuid(param[2])
    ELSE [ok |-> TRUE, id |-> 1]

\* query.get("roomId").and_then(|id| Uuid::parse_str(id).ok())
ParseRoomId(param) ==
    IF param = Absent THEN [ok |-> FALSE, id |-> 0] ELSE ParseUuid(param[2])

\* mutant of ParseUsername: an absent username becomes the empty string
ParseUsernameOrEmpty(param) == IF param = Absent THEN "" ELSE param[2]

\* query.get("username").cloned().unwrap_or_else(|| "guest")
ParseUsername(param) == IF param = Absent THEN "guest" ELSE param[2]

\* the handle of the next actor ws::start creates
NewHandle == CHOOSE h \in Handles :
                 /\ actor[h] = "Unused"
                 /\ \A g \in Handles : actor[g] = "Unused" => h <= g

\* a connection attempt that ws_handler rejects: no ClientSession is built
ws_handler_reject(roomParam, userParam) ==
    /\ ~ParseRoomId(roomParam).ok
    /\ response' = HttpResponse("ws", <<roomParam, userParam>>, 400, "Invalid roomId")
    /\ requests' = Append(requests, Served(response'))
    /\ UNCHANGED <<sharedVars, lockVars, sessionVars>>

\* a connection attempt that ws_handler accepts: ws::start builds the actor
ws_handler_accept(roomParam, userParam) ==
    /\ ParseRoomId(roomParam).ok
    /\ \E h \in Handles : actor[h] = "Unused"
    /\ LET h == NewHandle IN
         /\ actor' = [actor EXCEPT ![h] = "Connecting"]
         /\ session' = [session EXCEPT ![h] =
                           [room_id |-> ParseRoomId(roomParam).id,
                            username |-> ParseUsername(userParam)]]
         /\ conn_open' = [conn_open EXCEPT ![h] = TRUE]
    /\ response' = HttpResponse("ws", <<roomParam, userParam>>, 101, "")
    /\ UNCHANGED <<sharedVars, lockVars, mailbox, outbox, pc, frame, frames, requests>>

\* ---- Actor for ClientSession --------------------------------------------
\* mutant of Attach: the room's collection is replaced, not extended
AttachReplace(sessions, room_id, h) == MapInsert(sessions, room_id, <<h>>)

\* mutant of Attach: the handle is registered under the first room id
AttachFirstRoom(sessions, room_id, h) ==
    MapInsert(sessions, 1,
              IF 1 \in DOMAIN sessions THEN Append(sessions[1], h) ELSE <<h>>)

\* mutant of Attach: the handle is pushed twice
AttachTwice(sessions, room_id, h) ==
    MapInsert(sessions, room_id,
              IF room_id \in DOMAIN sessions
              THEN sessions[room_id] \o <<h, h>> ELSE <<h, h>>)

\* sessions.entry(room_id).or_default().push(ctx.address())
Attach(sessions, room_id, h) ==
    MapInsert(sessions, room_id,
              IF room_id \in DOMAIN sessions
              THEN Append(sessions[room_id], h) ELSE <<h>>)

started(h) ==
    /\ actor[h] = "Connecting"
    /\ sessions_lock = None
    /\ active_sessions' = Attach(active_sessions, session[h].room_id, h)
    /\ actor' = [actor EXCEPT ![h] = "Attached"]
    /\ UNCHANGED <<user_accounts, chat_rooms, lockVars, session, conn_open,
                   mailbox, outbox, pc, frame, frames, httpVars>>

\* the websocket connection of h ends (client close, network error)
conn_close(h) ==
    /\ actor[h] \in {"Connecting", "Attached"}
    /\ conn_open[h]
    /\ conn_open' = [conn_open EXCEPT ![h] = FALSE]
    /\ UNCHANGED <<sharedVars, lockVars, actor, session, mailbox, outbox, pc,
                   frame, frames, httpVars>>

\* mutant of Detach: the retain keeps the handle it should drop
DetachOthers(sessions, room_id, h) ==
    IF room_id \in DOMAIN sessions
    THEN [sessions EXCEPT ![room_id] =
             SelectSeq(sessions[room_id], LAMBDA a : a = h)]
    ELSE sessions

\* mutant of Detach: a room without entry is given an empty one
DetachOrDefault(sessions, room_id, h) ==
    MapInsert(sessions, room_id,
              IF room_id \in DOMAIN sessions
              THEN Retain(sessions[room_id], h) ELSE <<>>)

\* mutant of Detach: the entry of a room left empty is removed
DetachPrune(sessions, room_id, h) ==
    IF room_id \in DOMAIN sessions
    THEN IF Retain(sessions[room_id], h) = <<>>
         THEN [x \in (DOMAIN sessions) \ {room_id} |-> sessions[x]]
         ELSE [sessions EXCEPT ![room_id] = Retain(sessions[room_id], h)]
    ELSE sessions

\* if let Some(user_list) = sessions.get_mut(room_id) { user_list.retain(..) }
Detach(sessions, room_id, h) ==
    IF room_id \in DOMAIN sessions
    THEN [sessions EXCEPT ![room_id] = Retain(sessions[room_id], h)]
    ELSE sessions

\* the stream has finished (StreamHandler::finished stops the context)
stopped(h) ==
    /\ actor[h] = "Attached"
    /\ ~conn_open[h]
    /\ pc[h] = "idle"
    /\ sessions_lock = None
    /\ active_sessions' = Detach(active_sessions, session[h].room_id, h)
    /\ actor' = [actor EXCEPT ![h] = "Closed"]
    /\ UNCHANGED <<user_accounts, chat_rooms, lockVars, session, conn_open,
                   mailbox, outbox, pc, frame, frames, httpVars>>

\* ---- Handler<ChatMessage> for ClientSession -----------------------------
\* the frames on the connection after the actor handled msg
Deliver(h, msg, out) ==
    IF msg.room_id = session[h].room_id THEN Append(out, msg.content) ELSE out

chat_message(h) ==
    /\ actor[h] = "Attached"
    /\ pc[h] = "idle"
    /\ mailbox[h] # <<>>
    /\ outbox' = [outbox EXCEPT ![h] = Deliver(h, Head(mailbox[h]), outbox[h])]
    /\ mailbox' = [mailbox EXCEPT ![h] = Tail(mailbox[h])]
    /\ UNCHANGED <<sharedVars, lockVars, actor, session, conn_open, pc, frame,
                   frames, httpVars>>

\* ---- StreamHandler for ClientSession ------------------------------------
\* String::from_utf8_lossy(text.as_bytes()): the text of a Text frame is
\* valid UTF-8 (ByteString), for which the lossy conversion changes nothing
from_utf8_lossy(text) == text

\* mutant of do_send: the message is put at the head of the mailbox
do_send_front(mb, u, msg) ==
    IF actor[u] = "Closed" THEN mb ELSE [mb EXCEPT ![u] = <<msg>> \o mb[u]]

\* Addr::do_send: queued in the mailbox; dropped when the mailbox is closed
do_send(mb, u, msg) ==
    IF actor[u] = "Closed" THEN mb ELSE [mb EXCEPT ![u] = Append(mb[u], msg)]

\* mutant of Broadcast: only the first handle of the collection is sent to
BroadcastFirstOnly(mb, users, msg) ==
    IF users = <<>> THEN mb ELSE do_send(mb, Head(users), msg)

\* mutant of Broadcast: the loop ends at the first handle whose connection
\* is gone
RECURSIVE BroadcastAbort(_, _, _)
BroadcastAbort(mb, users, msg) ==
    IF users = <<>> THEN mb
    ELSE IF ~conn_open[Head(users)] THEN mb
    ELSE BroadcastAbort(do_send(mb, Head(users), msg), Tail(users), msg)

\* for user in users { user.do_send(new_message.clone()) }
RECURSIVE Broadcast(_, _, _)
Broadcast(mb, users, msg) ==
    IF users = <<>> THEN mb
    ELSE Broadcast(do_send(mb, Head(users), msg), Tail(users), msg)

\* a Text frame arrives: the handler runs up to its first lock()
stream_text(h, text) ==
    /\ actor[h] = "Attached"
    /\ conn_open[h]
    /\ pc[h] = "idle"
    /\ frames' = frames + 1
    /\ frame' = [frame EXCEPT ![h] = [content |-> from_utf8_lossy(text),
                                      msg |-> NoFrame.msg]]
    /\ pc' = [pc EXCEPT ![h] = "lock_sessions"]
    /\ UNCHANGED <<sharedVars, lockVars, actor, session, conn_open, mailbox,
                   outbox, httpVars>>

\* active_sessions.lock(), the fan-out, up to chat_rooms.lock()
handle_lock_sessions(h) ==
    /\ pc[h] = "lock_sessions"
    /\ sessions_lock = None
    /\ sessions_lock' = h
    /\ IF session[h].room_id \in DOMAIN active_sessions
       THEN LET new_message == ChatMessage(session[h].room_id,
                                           session[h].username,
                                           frame[h].content)
            IN /\ mailbox' = Broadcast(mailbox,
                                       active_sessions[session[h].room_id],
                                       new_message)
               /\ frame' = [frame EXCEPT ![h].msg = new_message]
               /\ pc' = [pc EXCEPT ![h] = "lock_rooms"]
       ELSE /\ pc' = [pc EXCEPT ![h] = "unlock"]
            /\ UNCHANGED <<mailbox, frame>>
    /\ UNCHANGED <<sharedVars, rooms_lock, actor, session, conn_open, outbox,
                   frames, httpVars>>

\* mutant of AppendMessage: a room that is not there is created for the message
AppendMessageUpsert(rooms, room_id, msg) ==
    IF room_id \in DOMAIN rooms
    THEN [rooms EXCEPT ![room_id].message_log = Append(@, msg)]
    ELSE MapInsert(rooms, room_id,
                   [ChatRoom(room_id, "", "") EXCEPT !.message_log = <<msg>>])

\* mutant of AppendMessage: the newest message is put first
AppendMessageFront(rooms, room_id, msg) ==
    IF room_id \in DOMAIN rooms
    THEN [rooms EXCEPT ![room_id].message_log = <<msg>> \o @]
    ELSE rooms

\* if let Some(room) = rooms.get_mut(room_id) { room.message_log.push(..) }
AppendMessage(rooms, room_id, msg) ==
    IF room_id \in DOMAIN rooms
    THEN [rooms EXCEPT ![room_id].message_log = Append(@, msg)]
    ELSE rooms

\* chat_rooms.lock() and the push to the room's history
handle_lock_rooms(h) ==
    /\ pc[h] = "lock_rooms"
    /\ rooms_lock = None
    /\ rooms_lock' = h
    /\ chat_rooms' = AppendMessage(chat_rooms, session[h].room_id, frame[h].msg)
    /\ pc' = [pc EXCEPT ![h] = "unlock"]
    /\ UNCHANGED <<user_accounts, active_sessions, sessions_lock, actor, session,
                   conn_open, mailbox, outbox, frame, frames, httpVars>>

\* mutant of handle_unlock: the guard of chat_rooms outlives the handler
handle_unlock_leak(h) ==
    /\ pc[h] = "unlock"
    /\ sessions_lock' = IF sessions_lock = h THEN None ELSE sessions_lock
    /\ pc' = [pc EXCEPT ![h] = "idle"]
    /\ frame' = [frame EXCEPT ![h] = NoFrame]
    /\ UNCHANGED <<sharedVars, rooms_lock, actor, session, conn_open, mailbox,
                   outbox, frames, httpVars>>

\* the guards go out of scope: rooms first, then sessions
handle_unlock(h) ==
    /\ pc[h] = "unlock"
    /\ rooms_lock' = IF rooms_lock = h THEN None ELSE rooms_lock
    /\ sessions_lock' = IF sessions_lock = h THEN None ELSE sessions_lock
    /\ pc' = [pc EXCEPT ![h] = "idle"]
    /\ frame' = [frame EXCEPT ![h] = NoFrame]
    /\ UNCHANGED <<sharedVars, actor, session, conn_open, mailbox, outbox,
                   frames, httpVars>>

\* mutant of stream_other: the diagnostic is sent through the room's fan-out
stream_other_broadcast(h, kind) ==
    /\ actor[h] = "Attached"
    /\ conn_open[h]
    /\ pc[h] = "idle"
    /\ frames' = frames + 1
    /\ mailbox' = Broadcast(mailbox, active_sessions[session[h].room_id],
                            ChatMessage(session[h].room_id, session[h].username,
                                        "Received non-text message."))
    /\ UNCHANGED <<sharedVars, lockVars, actor, session, conn_open, outbox, pc,
                   frame, httpVars>>

\* any other frame or a stream error: ctx.text("Received non-text message.")
stream_other(h, kind) ==
    /\ actor[h] = "Attached"
    /\ conn_open[h]
    /\ pc[h] = "idle"
    /\ frames' = frames + 1
    /\ outbox' = [outbox EXCEPT ![h] = Append(@, "Received non-text message.")]
    /\ UNCHANGED <<sharedVars, lockVars, actor, session, conn_open, mailbox, pc,
                   frame, httpVars>>

\* ---- REST handlers ------------------------------------------------------
\* accounts.insert(..) unless the key is there
Register(accounts, username, password) ==
    IF username \in DOMAIN accounts THEN accounts
    ELSE MapInsert(accounts, username, password)

register_user(username, password) ==
    /\ user_accounts' = Register(user_accounts, username, password)
    /\ response' =
         IF username \in DOMAIN user_accounts
         THEN HttpResponse("register", <<username, password>>, 409,
                           "User already exists")
         ELSE HttpResponse("register", <<username, password>>, 200,
                           "User registered successfully")
    /\ requests' = Append(requests, Served(response'))
    /\ UNCHANGED <<chat_rooms, active_sessions, lockVars, sessionVars>>

login_user(username, password) ==
    /\ response' =
         IF username \in DOMAIN user_accounts /\ user_accounts[username] = password
         THEN HttpResponse("login", <<username, password>>, 200, "Login successful")
         ELSE HttpResponse("login", <<username, password>>, 401, "Invalid credentials")
    /\ requests' = Append(requests, Served(response'))
    /\ UNCHANGED <<sharedVars, lockVars, sessionVars>>

\* the ids Uuid::new_v4() can return: a random 122-bit value, taken to differ
\* from every id the program has seen
SeenIds == (DOMAIN chat_rooms) \cup (DOMAIN active_sessions)
           \cup {session[h].room_id : h \in Handles}
FreshIds == RoomIds \ SeenIds

\* mutant of CreateRoom: a room of the same name is replaced by the new one
CreateRoomByName(rooms, id, name, creator) ==
    LET kept == {x \in DOMAIN rooms : rooms[x].name # name}
    IN [x \in kept \cup {id} |->
           IF x = id THEN ChatRoom(id, name, creator) ELSE rooms[x]]

\* rooms.insert(room.id, room.clone())
CreateRoom(rooms, id, name, creator) ==
    MapInsert(rooms, id, ChatRoom(id, name, creator))

create_chat_room(name, creator) ==
    /\ rooms_lock = None
    /\ \E id \in FreshIds :
         /\ chat_rooms' = CreateRoom(chat_rooms, id, name, creator)
         /\ response' = HttpResponse("create_room", <<name, creator>>, 200,
                                     chat_rooms'[id])
    /\ requests' = Append(requests, Served(response'))
    /\ UNCHANGED <<user_accounts, active_sessions, lockVars, sessionVars>>

\* mutant of AddParticipant: an unknown room is created for the participant
AddParticipantUpsert(rooms, room_id, username) ==
    IF room_id \in DOMAIN rooms
    THEN [rooms EXCEPT ![room_id].participants = @ \cup {username}]
    ELSE MapInsert(rooms, room_id,
                   [ChatRoom(room_id, "", "") EXCEPT !.participants = {username}])

\* mutant of AddParticipant: a participant already there is taken out
AddParticipantToggle(rooms, room_id, username) ==
    IF room_id \in DOMAIN rooms
    THEN [rooms EXCEPT ![room_id].participants =
             IF username \in @ THEN @ \ {username} ELSE @ \cup {username}]
    ELSE rooms

\* room.participants.insert(username)
AddParticipant(rooms, room_id, username) ==
    IF room_id \in DOMAIN rooms
    THEN [rooms EXCEPT ![room_id].participants = @ \cup {username}]
    ELSE rooms

add_participant(room_id, username) ==
    /\ rooms_lock = None
    /\ chat_rooms' = AddParticipant(chat_rooms, room_id, username)
    /\ response' =
         IF room_id \in DOMAIN chat_rooms
         THEN HttpResponse("add_user", <<room_id, username>>, 200,
                           chat_rooms'[room_id])
         ELSE HttpResponse("add_user", <<room_id, username>>, 404, "Room not found")
    /\ requests' = Append(requests, Served(response'))
    /\ UNCHANGED <<user_accounts, active_sessions, lockVars, sessionVars>>

\* rooms.values().cloned().collect(): every room, in the map's own order
RoomList(rooms) == {rooms[id] : id \in DOMAIN rooms}

list_chat_rooms ==
    /\ rooms_lock = None
    /\ response' = HttpResponse("list_rooms", <<>>, 200, RoomList(chat_rooms))
    /\ requests' = Append(requests, Served(response'))
    /\ UNCHANGED <<sharedVars, lockVars, sessionVars>>

\* ---- the system ---------------------------------------------------------
\* one step of the program, with at most nh session handles, nf inbound
\* frames and nr REST requests
Step(nh, nf, nr) ==
    \/ \E rp \in RoomIdParams, up \in UserParams :
         Len(requests) < nr /\ ws_handler_reject(rp, up)
    \/ \E rp \in RoomIdParams, up \in UserParams :
         (\E h \in 1..nh : actor[h] = "Unused") /\ ws_handler_accept(rp, up)
    \/ \E h \in Handles : started(h)
    \/ \E h \in Handles : conn_close(h)
    \/ \E h \in Handles : stopped(h)
    \/ \E h \in Handles : chat_message(h)
    \/ \E h \in Handles, text \in Contents : frames < nf /\ stream_text(h, text)
    \/ \E h \in Handles : handle_lock_sessions(h)
    \/ \E h \in Handles : handle_lock_rooms(h)
    \/ \E h \in Handles : handle_unlock(h)
    \/ \E h \in Handles, kind \in NonTextKinds : frames < nf /\ stream_other(h, kind)
    \/ \E u \in Creators, p \in Passwords : Len(requests) < nr /\ register_user(u, p)
    \/ \E u \in Creators, p \in Passwords : Len(requests) < nr /\ login_user(u, p)
    \/ \E n \in RoomNames, c \in Creators : Len(requests) < nr /\ create_chat_room(n, c)
    \/ \E r \in RoomIds, u \in Usernames : Len(requests) < nr /\ add_participant(r, u)
    \/ Len(requests) < nr /\ list_chat_rooms

\* chat traffic of NumSessions sessions beside a few REST requests
Next == Step(NumSessions, MaxFrames, MaxChatRequests)

Spec == Init /\ [][Next]_vars

\* REST traffic beside the chat traffic of RestSessions sessions
RestNext == Step(RestSessions, RestFrames, MaxRequests)

RestSpec == Init /\ [][RestNext]_vars

\* ---- vocabulary of the properties ---------------------------------------
Diagnostic == "Received non-text message."

\* the handles of the session registry, over every room
RegisteredIn(sessions) ==
    UNION {Range(sessions[r]) : r \in DOMAIN sessions}

\* the sessions that are Attached and bound to room r
AttachedTo(r) == {u \in Handles : actor[u] = "Attached" /\ session[u].room_id = r}

\* the message the stream handler of h builds from the frame it handles
MessageOf(h) ==
    [room_id |-> session[h].room_id, sender |-> session[h].username,
     content |-> frame[h].content]

\* ---- C1 -----------------------------------------------------------------
\* C1: when a session of a created room handles one text frame, the fan-out
\* queues exactly one message with the frame's content for every session
\* Attached to that room (the sender included) and for no other session, the
\* room's history gains exactly that one entry and no other history changes,
\* and a session that handles a queued message writes its content once to its
\* connection.
C1_FanOut ==
    \A h \in Handles :
       (pc[h] = "lock_sessions" /\ pc'[h] # "lock_sessions"
            /\ session[h].room_id \in DOMAIN chat_rooms)
       => \A u \in Handles :
             mailbox'[u] = IF u \in AttachedTo(session[h].room_id)
                           THEN Append(mailbox[u], MessageOf(h))
                           ELSE mailbox[u]

C1_History ==
    /\ \A h \in Handles :
          (pc[h] = "lock_rooms" /\ pc'[h] # "lock_rooms"
               /\ session[h].room_id \in DOMAIN chat_rooms)
          => chat_rooms' = [chat_rooms EXCEPT ![session[h].room_id].message_log =
                                                  Append(@, MessageOf(h))]
    /\ \A r \in DOMAIN chat_rooms :
          (r \in DOMAIN chat_rooms'
               /\ chat_rooms'[r].message_log # chat_rooms[r].message_log)
          => \E h \in AttachedTo(r) : pc[h] = "lock_rooms" /\ pc'[h] = "unlock"

C1_Receive ==
    \A u \in Handles :
       /\ Len(mailbox'[u]) < Len(mailbox[u])
             => /\ mailbox'[u] = Tail(mailbox[u])
                /\ outbox'[u] = Append(outbox[u], Head(mailbox[u]).content)
       /\ (outbox'[u] # outbox[u] /\ mailbox'[u] = mailbox[u])
             => outbox'[u] = Append(outbox[u], Diagnostic)

C1_OneMessageOneEntryOneDeliveryEach ==
    [][C1_FanOut /\ C1_History /\ C1_Receive]_vars

\* two sessions attached to one created room, one frame handled, and each of
\* the two has been delivered exactly that frame
C1_Witness ==
    \E r \in DOMAIN chat_rooms :
       /\ Len(chat_rooms[r].message_log) = 1
       /\ Cardinality(AttachedTo(r)) = 2
       /\ \A u \in AttachedTo(r) :
             /\ pc[u] = "idle"
             /\ mailbox[u] = <<>>
             /\ outbox[u] = <<chat_rooms[r].message_log[1].content>>

\* ---- C2 -----------------------------------------------------------------
\* C2: a session whose stopped() has run is in no collection of the session
\* registry, stays Closed, and from then on nothing is queued for it and
\* nothing is written to its connection.
C2_Detached ==
    \A h \in Handles :
       /\ actor'[h] = "Closed" => h \notin RegisteredIn(active_sessions')
       /\ actor[h] = "Closed"
             => /\ actor'[h] = "Closed"
                /\ mailbox'[h] = mailbox[h]
                /\ outbox'[h] = outbox[h]

C2_NoDeliveryAfterDetach == [][C2_Detached]_vars

\* a session is Closed while another session of its room has just fanned a
\* frame out (it holds the registry lock, so the detach came first)
C2_Witness ==
    \E h, g \in Handles :
       /\ actor[h] = "Closed"
       /\ g # h
       /\ session[g].room_id = session[h].room_id
       /\ pc[g] = "lock_rooms"
       /\ mailbox[g] # <<>>

\* ---- C3 -----------------------------------------------------------------
\* C3: handling a frame that is no text frame changes no room, no registry
\* entry, no mailbox and no session state; it writes one diagnostic frame to
\* the connection of the handling session, which is Attached and registered
\* before and after.
C3_NonTextStep == frames' = frames + 1 /\ pc' = pc

C3_NonTextEffect ==
    C3_NonTextStep
    => /\ chat_rooms' = chat_rooms
       /\ active_sessions' = active_sessions
       /\ mailbox' = mailbox
       /\ actor' = actor
       /\ session' = session
       /\ conn_open' = conn_open
       /\ \E h \in Handles :
             /\ actor[h] = "Attached"
             /\ h \in RegisteredIn(active_sessions)
             /\ outbox' = [outbox EXCEPT ![h] = Append(@, Diagnostic)]

C3_NonTextFrameIsLocal == [][C3_NonTextEffect]_vars

\* a session of a room with history and a second attached session has been
\* answered with the diagnostic
C3_Witness ==
    \E h, g \in Handles :
       /\ h # g
       /\ actor[h] = "Attached" /\ actor[g] = "Attached"
       /\ session[h].room_id = session[g].room_id
       /\ session[h].room_id \in DOMAIN chat_rooms
       /\ chat_rooms[session[h].room_id].message_log # <<>>
       /\ outbox[h] # <<>>
       /\ outbox[h][Len(outbox[h])] = Diagnostic

\* ---- C4 -----------------------------------------------------------------
\* C4: an add_participant request whose room id is not in the room registry
\* is answered 404 and changes neither the room registry (the room is not
\* created) nor the session registry nor the accounts.
C4_UnknownRoomStep ==
    /\ requests' # requests
    /\ response'.op = "add_user"
    /\ response'.args[1] \notin DOMAIN chat_rooms

C4_UnknownRoomEffect ==
    C4_UnknownRoomStep
    => /\ response'.status = 404
       /\ chat_rooms' = chat_rooms
       /\ active_sessions' = active_sessions
       /\ user_accounts' = user_accounts

C4_UnknownRoomIsNotFound == [][C4_UnknownRoomEffect]_vars

\* the request was refused while rooms, sessions and accounts existed
C4_Witness ==
    /\ response.op = "add_user"
    /\ response.status = 404
    /\ chat_rooms # <<>>
    /\ RegisteredIn(active_sessions) # {}
    /\ user_accounts # <<>>

\* ---- C5 -----------------------------------------------------------------
\* C5: an add_participant request for a room of the registry is answered 200
\* with the room's snapshot; it adds the username to the room's participants
\* and changes nothing else, and when the username already is a participant
\* (a repeated request) the room registry is left exactly as it was.
C5_KnownRoomStep ==
    /\ requests' # requests
    /\ response'.op = "add_user"
    /\ response'.args[1] \in DOMAIN chat_rooms

C5_KnownRoomEffect ==
    C5_KnownRoomStep
    => LET r == response'.args[1]
           u == response'.args[2]
       IN /\ response'.status = 200
          /\ response'.body = chat_rooms'[r]
          /\ chat_rooms' = [chat_rooms EXCEPT ![r].participants = @ \cup {u}]
          /\ u \in chat_rooms[r].participants => chat_rooms' = chat_rooms

C5_AddParticipantIdempotent == [][C5_KnownRoomEffect]_vars

\* the same (room, username) was added twice in a row, both answered 200
C5_Witness ==
    /\ Len(requests) >= 2
    /\ LET n == Len(requests) IN
          /\ requests[n].op = "add_user" /\ requests[n].status = 200
          /\ requests[n - 1] = requests[n]
          /\ chat_rooms[requests[n].args[1]].participants = {requests[n].args[2]}

\* ---- C6 -----------------------------------------------------------------
\* C6: a create_room request is answered 200 with the new room; it adds one
\* room under an id that was not in the registry, with the name and creator
\* of the request, no participant and no history, and leaves every other room
\* as it was.  A list_rooms request is answered with every room of the
\* registry; no room ever leaves the registry or changes its id, name or
\* creator, and a room's history changes only when a session bound to that
\* room pushes the frame it is handling.
C6_CreateEffect ==
    (requests' # requests /\ response'.op = "create_room")
    => /\ response'.status = 200
       /\ \E id \in RoomIds \ DOMAIN chat_rooms :
             /\ DOMAIN chat_rooms' = (DOMAIN chat_rooms) \cup {id}
             /\ \A x \in DOMAIN chat_rooms : chat_rooms'[x] = chat_rooms[x]
             /\ chat_rooms'[id] = [id |-> id,
                                   name |-> response'.args[1],
                                   created_by |-> response'.args[2],
                                   participants |-> {},
                                   message_log |-> <<>>]
             /\ response'.body = chat_rooms'[id]

C6_ListEffect ==
    (requests' # requests /\ response'.op = "list_rooms")
    => /\ response'.status = 200
       /\ chat_rooms' = chat_rooms
       /\ \A id \in DOMAIN chat_rooms : chat_rooms[id] \in response'.body
       /\ \A room \in response'.body :
             room.id \in DOMAIN chat_rooms /\ room = chat_rooms[room.id]

C6_RoomKept ==
    \A id \in DOMAIN chat_rooms :
       /\ id \in DOMAIN chat_rooms'
       /\ chat_rooms'[id].id = id
       /\ chat_rooms'[id].name = chat_rooms[id].name
       /\ chat_rooms'[id].created_by = chat_rooms[id].created_by
       /\ chat_rooms'[id].message_log # chat_rooms[id].message_log
             => \E h \in Handles :
                   /\ session[h].room_id = id
                   /\ pc[h] = "lock_rooms" /\ pc'[h] = "unlock"

C6_CreateRoomAddsOneListedRoom ==
    [][C6_CreateEffect /\ C6_ListEffect /\ C6_RoomKept]_vars

\* two rooms of the same name were created and list_rooms answered with both
C6_Witness ==
    /\ response.op = "list_rooms"
    /\ Len(requests) = 3
    /\ requests[1].op = "create_room" /\ requests[2].op = "create_room"
    /\ Cardinality(response.body) = 2
    /\ \A room \in response.body :
          /\ room.name = requests[1].args[1]
          /\ room.created_by = requests[1].args[2]
          /\ room.message_log = <<>>

\* ---- C7 -----------------------------------------------------------------
\* C7: a connection attempt whose roomId is absent or is no uuid is answered
\* with a 4xx status and changes no session, no registry and no room; a
\* ClientSession is only ever created by an attempt whose roomId is the text
\* of a uuid, and it is bound to that uuid.
ValidRoomIdParams == {Present(UuidText(id)) : id \in RoomIds}

C7_RejectEffect ==
    (requests' # requests /\ response'.op = "ws")
    => /\ response'.args[1] \notin ValidRoomIdParams
       /\ response'.status \in 400..499
       /\ actor' = actor
       /\ session' = session
       /\ conn_open' = conn_open
       /\ active_sessions' = active_sessions
       /\ chat_rooms' = chat_rooms

C7_SessionCreated ==
    \A h \in Handles :
       (actor[h] = "Unused" /\ actor'[h] # "Unused")
       => /\ response'.op = "ws"
          /\ response'.args[1] \in ValidRoomIdParams
          /\ response'.args[1] = Present(UuidText(session'[h].room_id))

C7_BadRoomIdRejected == [][C7_RejectEffect /\ C7_SessionCreated]_vars

\* an attempt with a roomId that is no uuid, and one without roomId, were
\* rejected while a session was registered
C7_Witness ==
    /\ RegisteredIn(active_sessions) # {}
    /\ Len(requests) >= 2
    /\ \E i, j \in 1..Len(requests) :
          /\ requests[i].op = "ws" /\ requests[i].args[1] = Absent
          /\ requests[j].op = "ws" /\ requests[j].args[1] = Present(NotAUuid)
          /\ requests[i].status = 400 /\ requests[j].status = 400

\* ---- C8 -----------------------------------------------------------------
\* C8: in every step, every room of the registry stays in the registry with
\* the same id, name and creator, and its history before the step is a prefix
\* of its history after the step.
IsPrefix(a, b) == Len(a) <= Len(b) /\ SubSeq(b, 1, Len(a)) = a

C8_RoomStep ==
    \A id \in DOMAIN chat_rooms :
       /\ id \in DOMAIN chat_rooms'
       /\ chat_rooms'[id].id = chat_rooms[id].id
       /\ chat_rooms'[id].name = chat_rooms[id].name
       /\ chat_rooms'[id].created_by = chat_rooms[id].created_by
       /\ IsPrefix(chat_rooms[id].message_log, chat_rooms'[id].message_log)

C8_HistoryAppendOnly == [][C8_RoomStep]_vars

\* a room whose history holds two different entries
C8_Witness ==
    \E id \in DOMAIN chat_rooms :
       /\ Len(chat_rooms[id].message_log) = 2
       /\ chat_rooms[id].message_log[1] # chat_rooms[id].message_log[2]

\* ---- C9 -----------------------------------------------------------------
\* every handle of the registry is there once, under the room id of its
\* session
RegistryWellFormed ==
    \A r \in DOMAIN active_sessions :
       \A i \in 1..Len(active_sessions[r]) :
          /\ session[active_sessions[r][i]].room_id = r
          /\ \A j \in 1..Len(active_sessions[r]) :
                active_sessions[r][i] = active_sessions[r][j] => i = j

\* C9 as stated: a handle is in the registry at most once, under its own
\* room id, and the handles of the registry are exactly the sessions whose
\* connection is open.
C9_RegistryIsOpenConnections ==
    /\ RegistryWellFormed
    /\ RegisteredIn(active_sessions) = {h \in Handles : conn_open[h]}

\* C9 as amended: a handle is in the registry at most once, under its own
\* room id, and the handles of the registry are exactly the sessions whose
\* started() has run and whose stopped() has not.
C9_RegistryIsAttachedSessions ==
    /\ RegistryWellFormed
    /\ RegisteredIn(active_sessions) = {h \in Handles : actor[h] = "Attached"}

\* two registered sessions of one room, the connection of one already closed
C9_Witness ==
    \E h, g \in Handles :
       /\ h # g
       /\ {h, g} \subseteq RegisteredIn(active_sessions)
       /\ session[h].room_id = session[g].room_id
       /\ ~conn_open[h]
       /\ conn_open[g]

\* ---- C10 ----------------------------------------------------------------
\* the chat_rooms mutex is only held by the holder of the active_sessions
\* mutex, who took it second and is about to release both; the holder of the
\* active_sessions mutex is inside the stream handler; a session that waits
\* for the active_sessions mutex holds no mutex
C10_LockOrder ==
    /\ rooms_lock # None
          => sessions_lock = rooms_lock /\ pc[rooms_lock] = "unlock"
    /\ sessions_lock # None => pc[sessions_lock] \in {"lock_rooms", "unlock"}
    /\ \A h \in Handles :
          pc[h] \in {"idle", "lock_sessions"}
             => sessions_lock # h /\ rooms_lock # h

\* C10: the lock order holds in every state, every mutex that is taken is
\* released, and every pending attach and every pending detach completes.
C10_NoDeadlock ==
    /\ []C10_LockOrder
    /\ \A h \in Handles :
          /\ (sessions_lock = h) ~> (sessions_lock # h)
          /\ (rooms_lock = h) ~> (rooms_lock # h)
          /\ (actor[h] = "Connecting") ~> (actor[h] = "Attached")
          /\ (actor[h] = "Attached" /\ ~conn_open[h]) ~> (actor[h] = "Closed")

\* a session waits to attach and another waits to detach while a third
\* party, the dispatcher of some session, holds both mutexes
C10_Witness ==
    \E h, g \in Handles :
       /\ h # g
       /\ sessions_lock = h /\ rooms_lock = h
       /\ \/ actor[g] = "Connecting"
          \/ pc[g] = "lock_sessions"

\* a thread that can run does run: the actor of a session is polled, and a
\* mutex that is free is handed to a thread that waits for it
Fairness ==
    \A h \in Handles :
       /\ WF_vars(started(h))
       /\ WF_vars(stopped(h))
       /\ WF_vars(handle_lock_sessions(h))
       /\ WF_vars(handle_lock_rooms(h))
       /\ WF_vars(handle_unlock(h))

\* the chat traffic of Spec beside the creation of rooms (the other REST
\* handlers hold a mutex within one step only, as create_chat_room does)
LockNext ==
    \/ \E rp \in RoomIdParams, up \in UserParams :
         (\E h \in Handles : actor[h] = "Unused") /\ ws_handler_accept(rp, up)
    \/ \E h \in Handles : started(h)
    \/ \E h \in Handles : conn_close(h)
    \/ \E h \in Handles : stopped(h)
    \/ \E h \in Handles : chat_message(h)
    \/ \E h \in Handles, text \in Contents :
         frames < MaxFrames /\ stream_text(h, text)
    \/ \E h \in Handles : handle_lock_sessions(h)
    \/ \E h \in Handles : handle_lock_rooms(h)
    \/ \E h \in Handles : handle_unlock(h)
    \/ \E h \in Handles, kind \in NonTextKinds :
         frames < MaxFrames /\ stream_other(h, kind)
    \/ \E n \in RoomNames, c \in Creators :
         Len(requests) < MaxChatRequests /\ create_chat_room(n, c)

LockSpec == Init /\ [][LockNext]_vars /\ Fairness

\* ---- C11 ----------------------------------------------------------------
\* the session h stands at a lock() of the active_sessions mutex: in
\* started(), in stopped() or at the head of the stream handler
WaitsForSessions(h) ==
    \/ actor[h] = "Connecting"
    \/ actor[h] = "Attached" /\ pc[h] = "idle" /\ ~conn_open[h]
    \/ pc[h] = "lock_sessions"

\* C11: a session that stands at a lock() of a mutex is never kept waiting
\* by a holder that works on a different room.
C11_NoCrossRoomContention ==
    \A h, g \in Handles :
       (h # g /\ WaitsForSessions(h) /\ sessions_lock = g)
       => session[g].room_id = session[h].room_id

\* ---- C12 ----------------------------------------------------------------
\* C12: when the collection of the sender's room holds a handle whose
\* connection is already gone, the fan-out still queues the message for
\* every handle of the collection whose connection is open, the handler goes
\* on to the history, the history of a created room gains the message, and
\* the sender stays Attached; no response reports a failure.
C12_DeadHandleIn(r) ==
    /\ r \in DOMAIN active_sessions
    /\ \E u \in Range(active_sessions[r]) : ~conn_open[u]

C12_FanOutGoesOn ==
    \A h \in Handles :
       (pc[h] = "lock_sessions" /\ pc'[h] # "lock_sessions"
            /\ C12_DeadHandleIn(session[h].room_id))
       => /\ \A g \in Range(active_sessions[session[h].room_id]) :
                conn_open[g] => mailbox'[g] = Append(mailbox[g], MessageOf(h))
          /\ pc'[h] = "lock_rooms"
          /\ actor' = actor
          /\ response' = response

C12_HistoryGoesOn ==
    \A h \in Handles :
       (pc[h] = "lock_rooms" /\ pc'[h] # "lock_rooms"
            /\ C12_DeadHandleIn(session[h].room_id)
            /\ session[h].room_id \in DOMAIN chat_rooms)
       => /\ chat_rooms'[session[h].room_id].message_log =
                Append(chat_rooms[session[h].room_id].message_log, MessageOf(h))
          /\ actor'[h] = "Attached"
          /\ response' = response

C12_DeliveryFailureDoesNotAbort ==
    [][C12_FanOutGoesOn /\ C12_HistoryGoesOn]_vars

\* the sender has pushed its message to the history of its room while the
\* collection held, ahead of the sender, a handle whose connection was gone
C12_Witness ==
    \E h, u \in Handles :
       /\ h # u
       /\ pc[h] = "unlock" /\ rooms_lock = h
       /\ session[h].room_id \in DOMAIN chat_rooms
       /\ active_sessions[session[h].room_id] = <<u, h>>
       /\ ~conn_open[u] /\ conn_open[h]
       /\ mailbox[h] # <<>>
       /\ mailbox[h][Len(mailbox[h])] = frame[h].msg

\* ---- C13 ----------------------------------------------------------------
\* how often h is in the registry
RECURSIVE Count(_, _)
Count(list, h) ==
    IF list = <<>> THEN 0
    ELSE (IF Head(list) = h THEN 1 ELSE 0) + Count(Tail(list), h)

RECURSIVE CountAll(_, _, _)
CountAll(sessions, rooms, h) ==
    IF rooms = {} THEN 0
    ELSE LET r == CHOOSE x \in rooms : TRUE
         IN Count(sessions[r], h) + CountAll(sessions, rooms \ {r}, h)

Registrations(sessions, h) == CountAll(sessions, DOMAIN sessions, h)

\* C13: the state of a session only moves Unused -> Connecting -> Attached
\* -> Closed; the ClientSession value (room id, username) never changes once
\* the session exists; the handle enters the registry in the step to
\* Attached and in no other step, once; it leaves the registry in the step
\* to Closed and in no other step.
C13_Lifecycle ==
    \A h \in Handles :
       /\ actor'[h] # actor[h]
             => <<actor[h], actor'[h]>> \in {<<"Unused", "Connecting">>,
                                             <<"Connecting", "Attached">>,
                                             <<"Attached", "Closed">>}
       /\ actor[h] # "Unused" => session'[h] = session[h]
       /\ Registrations(active_sessions', h) =
             IF actor'[h] = "Attached" THEN 1 ELSE 0
       /\ Registrations(active_sessions', h) # Registrations(active_sessions, h)
             => actor'[h] # actor[h]

C13_SessionLifecycle == [][C13_Lifecycle]_vars

\* a session has gone through its whole life while another one, created
\* later, is attached to the same room
C13_Witness ==
    \E h, g \in Handles :
       /\ actor[h] = "Closed" /\ actor[g] = "Attached"
       /\ session[h].room_id = session[g].room_id
       /\ Registrations(active_sessions, h) = 0
       /\ Registrations(active_sessions, g) = 1
       /\ outbox[h] # <<>>

\* ---- C14 ----------------------------------------------------------------
ContentsOf(msgs) == [i \in 1..Len(msgs) |-> msgs[i].content]

\* the chat contents session u was sent, in the order it gets them: those
\* written to its connection, then those still queued
Received(u) ==
    SelectSeq(outbox[u], LAMBDA t : t # Diagnostic) \o ContentsOf(mailbox[u])

\* the contents of room r in history order, followed by the message that
\* has been fanned out and is about to be pushed
HistoryOrder(r) ==
    ContentsOf(chat_rooms[r].message_log)
    \o (IF \E h \in Handles : session[h].room_id = r /\ pc[h] = "lock_rooms"
        THEN LET h == CHOOSE x \in Handles :
                          session[x].room_id = r /\ pc[x] = "lock_rooms"
             IN <<frame[h].msg.content>>
        ELSE <<>>)

IsSegment(a, b) ==
    \E i \in 0..Len(b) :
       i + Len(a) <= Len(b) /\ SubSeq(b, i + 1, i + Len(a)) = a

\* C14: what a session of a created room is sent is, in the order it gets
\* it, a run of consecutive entries of the room's history in history order:
\* two messages are never received in the order opposite to the history's.
C14_DeliveryOrderIsHistoryOrder ==
    \A u \in Handles :
       (actor[u] # "Unused" /\ session[u].room_id \in DOMAIN chat_rooms)
       => IsSegment(Received(u), HistoryOrder(session[u].room_id))

\* two sessions of one room have each sent a message, the two differ, and a
\* session has been written both in the order of the history
C14_Witness ==
    \E r \in DOMAIN chat_rooms :
       /\ Len(chat_rooms[r].message_log) = 2
       /\ chat_rooms[r].message_log[1].sender # chat_rooms[r].message_log[2].sender
       /\ chat_rooms[r].message_log[1].content # chat_rooms[r].message_log[2].content
       /\ \E u \in Handles :
             /\ session[u].room_id = r
             /\ outbox[u] = ContentsOf(chat_rooms[r].message_log)

\* ---- C15 ----------------------------------------------------------------
\* the session h has pushed the message it handles to the history of its
\* room and still holds both mutexes
C15_JustAppended(h) ==
    /\ pc[h] = "unlock"
    /\ rooms_lock = h
    /\ session[h].room_id \in DOMAIN chat_rooms

\* C15 as stated: when the message is in the history, no session of the
\* snapshot is still waiting to be delivered it.
C15_DeliveredBeforeAppend ==
    \A h \in Handles :
       C15_JustAppended(h)
       => \A u \in Range(active_sessions[session[h].room_id]) :
             frame[h].msg \notin Range(mailbox[u])

\* C15 as amended: from the end of the fan-out to the release of the locks,
\* so also when the message enters the history, the message has been queued
\* for every handle of the snapshot (it is in the mailbox or already written
\* to the connection), and the sender's own copy is still in its mailbox.
C15_QueuedBeforeAppend ==
    \A h \in Handles :
       (pc[h] \in {"lock_rooms", "unlock"}
            /\ session[h].room_id \in DOMAIN active_sessions)
       => /\ \A u \in Range(active_sessions[session[h].room_id]) :
                \/ frame[h].msg \in Range(mailbox[u])
                \/ frame[h].msg.content \in Range(outbox[u])
          /\ mailbox[h] # <<>>
          /\ mailbox[h][Len(mailbox[h])] = frame[h].msg

\* the message is in the history, another session of the snapshot has it on
\* its connection already and the sender has it queued
C15_Witness ==
    \E h, u \in Handles :
       /\ h # u
       /\ C15_JustAppended(h)
       /\ u \in Range(active_sessions[session[h].room_id])
       /\ mailbox[u] = <<>>
       /\ outbox[u] = <<frame[h].msg.content>>
       /\ mailbox[h] = <<frame[h].msg>>

\* ---- C16 ----------------------------------------------------------------
\* C16: every message queued for a session and every entry of a room's
\* history carries the room id of that session, resp. of that room; a
\* session that takes a message from its mailbox writes it to its
\* connection (the room-id guard never discards), and a frame handled by a
\* session changes no mailbox of a session bound to another room and no
\* history of another room.
C16_OwnRoomOnly ==
    /\ \A u \in Handles :
          \A i \in 1..Len(mailbox[u]) :
             mailbox[u][i].room_id = session[u].room_id
    /\ \A r \in DOMAIN chat_rooms :
          \A i \in 1..Len(chat_rooms[r].message_log) :
             chat_rooms[r].message_log[i].room_id = r

C16_NoCrossRoomEffect ==
    /\ \A u \in Handles :
          Len(mailbox'[u]) < Len(mailbox[u])
             => Len(outbox'[u]) = Len(outbox[u]) + 1
    /\ \A h \in Handles :
          (pc[h] \in {"lock_sessions", "lock_rooms"} /\ pc'[h] # pc[h])
          => /\ \A u \in Handles :
                   session[u].room_id # session[h].room_id
                      => mailbox'[u] = mailbox[u]
             /\ \A r \in DOMAIN chat_rooms :
                   r # session[h].room_id => chat_rooms'[r] = chat_rooms[r]

C16_RoomsIsolated == []C16_OwnRoomOnly /\ [][C16_NoCrossRoomEffect]_vars

\* two attached sessions bound to different rooms: one has sent and got its
\* message, the other has got nothing
C16_Witness ==
    \E h, u \in Handles :
       /\ actor[h] = "Attached" /\ actor[u] = "Attached"
       /\ session[h].room_id # session[u].room_id
       /\ session[h].room_id \in DOMAIN chat_rooms
       /\ Len(chat_rooms[session[h].room_id].message_log) = 1
       /\ Len(outbox[h]) = 1
       /\ mailbox[u] = <<>> /\ outbox[u] = <<>>

\* ---- C17 ----------------------------------------------------------------
\* C17: a session is created with the username of the connection attempt,
\* "guest" when there is none; the content the stream handler works on is
\* the payload of the text frame; the entry pushed to a room's history has
\* that room's id, the session's username and that content, whatever the
\* accounts and the room's participants are; the frame a recipient is
\* written is the content of the queued message.
C17_Username ==
    \A h \in Handles :
       (actor[h] = "Unused" /\ actor'[h] # "Unused")
       => session'[h].username = IF response'.args[2] = Absent THEN "guest"
                                 ELSE response'.args[2][2]

C17_Payload ==
    \A h \in Handles, text \in Contents :
       stream_text(h, text) => frame'[h].content = text

C17_Entry ==
    \A r \in DOMAIN chat_rooms :
       (r \in DOMAIN chat_rooms'
            /\ chat_rooms'[r].message_log # chat_rooms[r].message_log)
       => \E h \in Handles :
             /\ pc[h] = "lock_rooms"
             /\ session[h].room_id = r
             /\ chat_rooms'[r].message_log =
                   Append(chat_rooms[r].message_log,
                          [room_id |-> r,
                           sender |-> session[h].username,
                           content |-> frame[h].content])

C17_Outbound ==
    \A u \in Handles :
       Len(mailbox'[u]) < Len(mailbox[u])
          => outbox'[u] = Append(outbox[u], Head(mailbox[u]).content)

C17_MessageFields ==
    [][C17_Username /\ C17_Payload /\ C17_Entry /\ C17_Outbound]_vars

\* a session that gave no username has its message in the history under
\* "guest" and on its connection, with no account and no participant
C17_Witness ==
    \E h \in Handles :
       /\ session[h].username = "guest"
       /\ session[h].room_id \in DOMAIN chat_rooms
       /\ user_accounts = <<>>
       /\ chat_rooms[session[h].room_id].participants = {}
       /\ \E c \in Contents :
             /\ chat_rooms[session[h].room_id].message_log =
                   <<[room_id |-> session[h].room_id, sender |-> "guest",
                      content |-> c]>>
             /\ outbox[h] = <<c>>

\* ---- C18 ----------------------------------------------------------------
\* C18: a session bound to a room id that is not in the room registry is
\* attached like any other; when it handles a text frame the message is
\* queued for every session Attached under that id, the push is skipped:
\* the room registry does not change and the room is not created, and the
\* handler ends like any other, with the session Attached and no response.
C18_FanOut ==
    \A h \in Handles :
       (pc[h] = "lock_sessions" /\ pc'[h] # "lock_sessions"
            /\ session[h].room_id \notin DOMAIN chat_rooms)
       => /\ \A u \in AttachedTo(session[h].room_id) :
                mailbox'[u] = Append(mailbox[u], MessageOf(h))
          /\ pc'[h] = "lock_rooms"

C18_NoAppend ==
    \A h \in Handles :
       (pc[h] = "lock_rooms" /\ pc'[h] # "lock_rooms"
            /\ session[h].room_id \notin DOMAIN chat_rooms)
       => /\ chat_rooms' = chat_rooms
          /\ pc'[h] = "unlock"
          /\ actor' = actor
          /\ response' = response

C18_UnknownRoomDeliversWithoutHistory == [][C18_FanOut /\ C18_NoAppend]_vars

\* two sessions attached under an id that was never created have both been
\* written a frame one of them sent, and the registry holds another room only
C18_Witness ==
    \E h, u \in Handles :
       /\ h # u
       /\ actor[h] = "Attached" /\ actor[u] = "Attached"
       /\ session[h].room_id = session[u].room_id
       /\ session[h].room_id \notin DOMAIN chat_rooms
       /\ chat_rooms # <<>>
       /\ pc[h] = "idle" /\ pc[u] = "idle"
       /\ frames = 1
       /\ Len(outbox[h]) = 1 /\ outbox[u] = outbox[h]
       /\ outbox[h][1] \in Contents

\* ---- C19 ----------------------------------------------------------------
\* the registry with handle h taken out of the collection of room r, every
\* other handle kept in its place
WithoutHandle(sessions, r, h) ==
    [x \in DOMAIN sessions |->
        IF x = r THEN SelectSeq(sessions[x], LAMBDA a : a # h)
        ELSE sessions[x]]

\* C19: for the registry of every reachable state, every room id and every
\* handle, detach leaves the registry with the same rooms, every collection
\* of another room as it was, and the collection of the room without that
\* handle and otherwise as it was; when the room has no entry or the handle
\* is not in its collection, the registry is unchanged.  The step in which
\* stopped() runs changes the session registry so and leaves the room
\* registry alone.
C19_DetachFrame ==
    \A r \in RoomIds, h \in Handles :
       /\ Detach(active_sessions, r, h) = WithoutHandle(active_sessions, r, h)
       /\ (r \notin DOMAIN active_sessions \/ h \notin Range(active_sessions[r]))
             => Detach(active_sessions, r, h) = active_sessions

C19_StoppedStep ==
    \A h \in Handles :
       (actor[h] = "Attached" /\ actor'[h] = "Closed")
       => /\ active_sessions' =
                WithoutHandle(active_sessions, session[h].room_id, h)
          /\ chat_rooms' = chat_rooms
          /\ Detach(active_sessions', session[h].room_id, h) = active_sessions'

C19_DetachRemovesOnlyTheHandle == []C19_DetachFrame /\ [][C19_StoppedStep]_vars

\* the first of two sessions of a room has detached, the second is still in
\* the room's collection, and a room without entry exists to detach from
C19_Witness ==
    \E h, g \in Handles :
       /\ actor[h] = "Closed"
       /\ session[h].room_id = session[g].room_id
       /\ active_sessions[session[h].room_id] = <<g>>
       /\ h < g
       /\ \E r \in RoomIds : r \notin DOMAIN active_sessions

\* ---- C20 ----------------------------------------------------------------
\* C20: a session inside the stream handler has an entry for its room in the
\* session registry, with its own handle in it; no step removes an entry
\* from the session registry; the handler never takes the branch without
\* entry (it releases with both mutexes held), and the fan-out queues the
\* message for the sender itself.
C20_SenderRegistered ==
    \A h \in Handles :
       /\ pc[h] # "idle"
             => /\ session[h].room_id \in DOMAIN active_sessions
                /\ h \in Range(active_sessions[session[h].room_id])
       /\ pc[h] = "unlock" => sessions_lock = h /\ rooms_lock = h

C20_EntryKept ==
    /\ DOMAIN active_sessions \subseteq DOMAIN active_sessions'
    /\ \A h \in Handles :
          (pc[h] = "lock_sessions" /\ pc'[h] # "lock_sessions")
          => /\ pc'[h] = "lock_rooms"
             /\ mailbox'[h] = Append(mailbox[h], MessageOf(h))

C20_SenderAlwaysInOwnRoom == []C20_SenderRegistered /\ [][C20_EntryKept]_vars

\* a session handles a text frame in a room whose entry has been left empty
\* once: the entry outlived the detach of its only session
C20_Witness ==
    \E h, g \in Handles :
       /\ actor[g] = "Closed"
       /\ g < h
       /\ session[g].room_id = session[h].room_id
       /\ active_sessions[session[h].room_id] = <<h>>
       /\ pc[h] = "lock_rooms"
       /\ mailbox[h] = <<frame[h].msg>>
====
